---------------------------- MODULE Spec2Model ----------------------------
(***************************************************************************)
(* Clipboard-history manager (xkiven/utility): the history store in its    *)
(* three implementations (storage/driver JSONStorage, its variant that     *)
(* carries a mutex, and MySQLStorage), the items made by                   *)
(* model.NewClipboardItem, the image files made by Processor.SaveImage,    *)
(* and the Monitor that feeds the store.                                   *)
(*                                                                         *)
(* Time is a tick counter.  Every creation of an item reads a later tick   *)
(* than the one before (time.Now() of two creations never coincides), and  *)
(* TicksPerSec ticks share one clock second, which is all that the id and  *)
(* the image file name keep of the time.                                   *)
(***************************************************************************)
EXTENDS Integers, Sequences, FiniteSets, TLC

(* ------------------------------ bounds -------------------------------- *)
MaxClock == 3
TicksPerSec == 2
RandN == 2
MaxCap == 2
\* capacity of the notification channel (10 in NewMonitor), scaled down
ChanCap == 1
\* settings changes the application goes through
MaxGen == 1

(* ------------------------------ state --------------------------------- *)
VARIABLES
    backend,    \* which storage.Storage implementation the factory built
    maxItems,   \* config.StorageConfig.MaxItems
    db,         \* persisted records: history.json's array, or the table's live rows
    tomb,       \* MySQL only: ids of soft-deleted rows (DeletedAt set)
    files,      \* image files present in the image directory
    clock,      \* the last tick read by time.Now()
    ret,        \* the list returned by the last store call
    err,        \* the error returned by the last store call ("ok" is nil)
    op,         \* the last store call: its name, its id argument, its item
                \* argument, the number of records stored when it was made,
                \* and its keyword or item-list argument
    calls,      \* store calls in progress: the Monitor goroutine's and the UI's
    started,    \* the store as it was when the calls in progress were issued
    mu,         \* part_001's JSONStorage.mu: "free", or the thread holding it
    cbText,     \* the OS clipboard's text slot ("" when it holds none)
    cbImage,    \* the OS clipboard's image slot ("none", or the payload)
    lastText,   \* Monitor.lastText
    lastImageID,    \* Monitor.lastImageID
    lastFileList,   \* Monitor.lastFileList
    changeChan, \* Monitor.changeChan: the lists sent and not yet received
    loop,       \* the poll loop's position: asleep between two cycles, or
                \* blocked in handleTextChange's send with the list it holds,
                \* or returned from Start's goroutine
    isRunning,  \* Monitor.isRunning
    stopChan,   \* Monitor.StopChan: "open" or "closed"
    tasks,      \* the poll-loop goroutines started and not yet returned
    startErr,   \* what the last Start call returned ("ok" is nil)
    panicked,   \* the process died of a runtime panic
    app         \* the Application: its store and monitor instances and its main thread

storeVars == <<db, tomb, files, ret, err, op>>
concVars == <<calls, started, mu>>
monVars == <<cbText, cbImage, lastText, lastImageID, lastFileList, changeChan, loop>>
lifeVars == <<isRunning, stopChan, tasks, startErr, panicked>>
vars == <<backend, maxItems, clock, storeVars, concVars, monVars, lifeVars, app>>

(* ------------------------------ values -------------------------------- *)
Backends == {"json", "json2", "mysql"}
Texts == {"a", "b"}
Formats == {"png"}
ImageLabel == "img"
NoPath == <<>>
Sec(t) == t \div TicksPerSec
\* an id no item ever gets: its second lies beyond the last tick
NoSuchId == <<Sec(MaxClock) + 1, 0>>

\* model/item.go generateID: the clock second (the layout's trailing zeros are
\* literal) followed by rand.Intn(1000).
generateID(now, r) == <<Sec(now), r>>

\* model/item.go NewClipboardItem
NewClipboardItem(itemType, content, imagePath, now, r) ==
    [id |-> generateID(now, r), type |-> itemType, content |-> content,
     imagePath |-> imagePath, timestamp |-> now, isFavorite |-> FALSE]

NoItem == [id |-> <<>>, type |-> "None", content |-> "", imagePath |-> NoPath,
           timestamp |-> 0, isFavorite |-> FALSE]

\* Processor.SaveImage's file name: clip_<second>.<format> in the image directory
SaveImagePath(now, format) == <<Sec(now), format>>

\* The Monitor's zero values
NoImageID == <<>>
Asleep == [pc |-> "sleep", items |-> <<>>]
Exited == [pc |-> "exited", items |-> <<>>]

\* The Application's instances.  Instance g of the store and of the Monitor
\* is the one built by the g-th settings change (0: by New).
Gens == 0 .. MaxGen
\* The Application as New leaves it: store 0 built, Monitor 0 built on it and
\* started, the window built on store 0, the main thread in the event loop.
AppInit ==
    [store |-> 0,       \* Application.storage
     monitor |-> 0,     \* Application.monitor
     win |-> 0,         \* Window.storage
     closed |-> {},     \* the store instances Close was called on
     stopChan |-> {},   \* the Monitors whose StopChan is closed
     stopped |-> {},    \* the Monitors on which a Stop call has returned
     loops |-> [g \in Gens |-> IF g = 0 THEN "sleep" ELSE "none"],
     pc |-> "ui"]       \* the main thread's position

(* ----------------------------- helpers -------------------------------- *)
Range(s) == {s[i] : i \in 1 .. Len(s)}
Take(s, n) == SubSeq(s, 1, IF n < Len(s) THEN n ELSE Len(s))
Drop(s, n) == SubSeq(s, n + 1, Len(s))
RemoveAt(s, i) == SubSeq(s, 1, i - 1) \o SubSeq(s, i + 1, Len(s))
HasId(s, id) == \E i \in 1 .. Len(s) : s[i].id = id
FirstIndex(s, id) == CHOOSE i \in 1 .. Len(s) :
                        s[i].id = id /\ \A j \in 1 .. i - 1 : s[j].id # id
SameKey(a, b) == a.content = b.content /\ a.type = b.type /\ a.imagePath = b.imagePath
ImagePathsOf(S) == {x.imagePath : x \in {y \in S : y.type = "Image" /\ y.imagePath # NoPath}}
Res(d, t, f, r, e) == [db |-> d, tomb |-> t, files |-> f, ret |-> r, err |-> e]


(* ------------------- JSONStorage (storage/driver/json.go) -------------- *)
\* What a call does once it has loaded `items`: whether it writes history.json
\* and with which list, the image files it removes, and what it returns.
Out(w, d, g, r, e) == [write |-> w, db |-> d, gone |-> g, ret |-> r, err |-> e]

\* A whole call on store S: load, then the rest of the call on the loaded list
Commit(S, out) ==
    Res(IF out.write THEN out.db ELSE S.db, S.tomb, S.files \ out.gone, out.ret, out.err)

\* LoadItems' comparator: favorites first, then the later timestamp first
JSONLess(a, b) ==
    IF a.isFavorite /\ ~b.isFavorite THEN TRUE
    ELSE IF ~a.isFavorite /\ b.isFavorite THEN FALSE
    ELSE a.timestamp > b.timestamp

JSONLoadItems(d) == SortSeq(d, JSONLess)

\* SaveItems writes at most MaxItems records, the head of the list it is given
JSONSaveItems(items) ==
    IF Len(items) > maxItems THEN SubSeq(items, 1, maxItems) ELSE items

\* an AddItem that does not look for a duplicate
JSONAddItemNoDedup(items, newItem) ==
    LET grown == <<newItem>> \o items
        cut == IF Len(grown) > maxItems THEN SubSeq(grown, 1, maxItems) ELSE grown
    IN Out(TRUE, JSONSaveItems(cut), {}, cut, "ok")

\* AddItem after the load: a duplicate returns the loaded list and writes
\* nothing; otherwise the item is prepended, the list cut to MaxItems and saved.
JSONAddItemFrom(items, newItem) ==
    IF \E i \in 1 .. Len(items) : SameKey(items[i], newItem)
    THEN Out(FALSE, <<>>, {}, items, "ok")
    ELSE LET grown == <<newItem>> \o items
             cut == IF Len(grown) > maxItems THEN SubSeq(grown, 1, maxItems) ELSE grown
         IN Out(TRUE, JSONSaveItems(cut), {}, cut, "ok")

JSONAddItem(S, newItem) == Commit(S, JSONAddItemFrom(JSONLoadItems(S.db), newItem))

\* DeleteItem after the load: the first record with the id is removed (and its
\* image file); with no such record the list is saved as loaded and the call
\* succeeds.
JSONDeleteItemFrom(items, id) ==
    IF HasId(items, id)
    THEN LET i == FirstIndex(items, id)
             gone == IF items[i].type = "Image" /\ items[i].imagePath # NoPath
                     THEN {items[i].imagePath} ELSE {}
             rest == RemoveAt(items, i)
         IN Out(TRUE, JSONSaveItems(rest), gone, rest, "ok")
    ELSE Out(TRUE, JSONSaveItems(items), {}, items, "ok")

JSONDeleteItem(S, id) == Commit(S, JSONDeleteItemFrom(JSONLoadItems(S.db), id))

\* ToggleFavorite after the load: the first record with the id is flipped; the
\* list is saved and returned in the order it was loaded in.
JSONToggleFavoriteFrom(items, id) ==
    LET flipped == IF HasId(items, id)
                   THEN [items EXCEPT ![FirstIndex(items, id)].isFavorite = ~@]
                   ELSE items
    IN Out(TRUE, JSONSaveItems(flipped), {}, flipped, "ok")

JSONToggleFavorite(S, id) ==
    Commit(S, JSONToggleFavoriteFrom(JSONLoadItems(S.db), id))

(* ------------ JSONStorage with a mutex (src/unnamed/part_001) ---------- *)
\* LoadItems' comparator: the later timestamp first, whatever the favorite flag
JSON2Less(a, b) == a.timestamp > b.timestamp

JSON2LoadItems(d) == SortSeq(d, JSON2Less)

JSON2SaveItems(items) ==
    IF Len(items) > maxItems THEN SubSeq(items, 1, maxItems) ELSE items

JSON2AddItemFrom(items, newItem) ==
    IF \E i \in 1 .. Len(items) : SameKey(items[i], newItem)
    THEN Out(FALSE, <<>>, {}, items, "ok")
    ELSE LET grown == <<newItem>> \o items
             cut == IF Len(grown) > maxItems THEN SubSeq(grown, 1, maxItems) ELSE grown
         IN Out(TRUE, JSON2SaveItems(cut), {}, cut, "ok")

JSON2AddItem(S, newItem) == Commit(S, JSON2AddItemFrom(JSON2LoadItems(S.db), newItem))

\* DeleteItem after the load: make([]..., 0, len(items)-1) panics on an empty
\* list (negative capacity); otherwise every record with the id is dropped (and
\* its image file), and without one the call fails and nothing is written.
JSON2DeleteItemFrom(items, id) ==
    LET newItems == SelectSeq(items, LAMBDA x : x.id # id)
        gone == ImagePathsOf({x \in Range(items) : x.id = id})
    IN IF Len(items) - 1 < 0
       THEN Out(FALSE, <<>>, {}, <<>>, "panic")
       ELSE IF ~HasId(items, id)
       THEN Out(FALSE, <<>>, {}, <<>>, "NotFound")
       ELSE Out(TRUE, JSON2SaveItems(newItems), gone, newItems, "ok")

JSON2DeleteItem(S, id) == Commit(S, JSON2DeleteItemFrom(JSON2LoadItems(S.db), id))

\* ToggleFavorite's final sort
JSON2ToggleLess(a, b) ==
    IF a.isFavorite # b.isFavorite THEN a.isFavorite ELSE a.timestamp > b.timestamp

\* ToggleFavorite after the load: the first record with the id is flipped and
\* the list saved, then sorted for the caller; an unknown id is an error.
JSON2ToggleFavoriteFrom(items, id) ==
    IF ~HasId(items, id)
    THEN Out(FALSE, <<>>, {}, <<>>, "NotFound")
    ELSE LET flipped == [items EXCEPT ![FirstIndex(items, id)].isFavorite = ~@]
         IN Out(TRUE, JSON2SaveItems(flipped), {}, SortSeq(flipped, JSON2ToggleLess), "ok")

JSON2ToggleFavorite(S, id) ==
    Commit(S, JSON2ToggleFavoriteFrom(JSON2LoadItems(S.db), id))

(* --------------- MySQLStorage (src/unnamed/part_000) ------------------- *)
\* ORDER BY is_favorite DESC, timestamp DESC
MySQLNewestFirst(a, b) ==
    IF a.isFavorite # b.isFavorite THEN a.isFavorite ELSE a.timestamp > b.timestamp

\* ORDER BY is_favorite DESC, timestamp ASC
MySQLOldestFirst(a, b) ==
    IF a.isFavorite # b.isFavorite THEN a.isFavorite ELSE a.timestamp < b.timestamp

\* LoadItems: the live rows in display order, at most MaxItems of them
MySQLLoadItems(rows) == Take(SortSeq(rows, MySQLNewestFirst), maxItems)

\* the overflow query with Offset(MaxItems + 1): one row too many survives
MySQLOldItemsOffByOne(rows) == Drop(SortSeq(rows, MySQLOldestFirst), maxItems + 1)

\* AddItem's overflow query: the rows past the first MaxItems, oldest first
\* (Offset(MaxItems) read as skipping that many rows of the ordered result)
MySQLOldItems(rows) == Drop(SortSeq(rows, MySQLOldestFirst), maxItems)

\* AddItem: an existing row with the same key gets the new timestamp; otherwise
\* the row is inserted, which the primary key refuses for an id the table
\* already holds (soft-deleted rows included).  Then the overflow rows are
\* removed together with their image files, and LoadItems is returned.
MySQLAddItem(S, newItem) ==
    LET existing == {i \in 1 .. Len(S.db) : SameKey(S.db[i], newItem)}
        taken == {S.db[i].id : i \in 1 .. Len(S.db)} \cup S.tomb
        rows == IF existing # {}
                THEN [S.db EXCEPT ![CHOOSE i \in existing : TRUE].timestamp =
                                       newItem.timestamp]
                ELSE Append(S.db, newItem)
        oldItems == MySQLOldItems(rows)
        ids == {oldItems[i].id : i \in 1 .. Len(oldItems)}
        kept == SelectSeq(rows, LAMBDA x : x.id \notin ids)
    IN IF existing = {} /\ newItem.id \in taken
       THEN Res(S.db, S.tomb, S.files, <<>>, "Duplicate")
       ELSE Res(kept, S.tomb \cup ids, S.files \ ImagePathsOf(Range(oldItems)),
                MySQLLoadItems(kept), "ok")

\* DeleteItem: First fails with a record-not-found error for an unknown id
MySQLDeleteItem(S, id) ==
    IF ~HasId(S.db, id)
    THEN Res(S.db, S.tomb, S.files, <<>>, "NotFound")
    ELSE LET kept == SelectSeq(S.db, LAMBDA x : x.id # id)
         IN Res(kept, S.tomb \cup {id},
                S.files \ ImagePathsOf({x \in Range(S.db) : x.id = id}),
                MySQLLoadItems(kept), "ok")

\* ToggleFavorite: one UPDATE; matching no row is no error
MySQLToggleFavorite(S, id) ==
    LET rows == [i \in 1 .. Len(S.db) |->
                    IF S.db[i].id = id
                    THEN [S.db[i] EXCEPT !.isFavorite = ~@] ELSE S.db[i]]
    IN Res(rows, S.tomb, S.files, MySQLLoadItems(rows), "ok")

(* ---------------- storage.Storage (storage/factory.go) ----------------- *)
Store == [db |-> db, tomb |-> tomb, files |-> files]

LoadItems(S) ==
    CASE backend = "json" -> JSONLoadItems(S.db)
      [] backend = "json2" -> JSON2LoadItems(S.db)
      [] backend = "mysql" -> MySQLLoadItems(S.db)

AddItem(S, newItem) ==
    CASE backend = "json" -> JSONAddItem(S, newItem)
      [] backend = "json2" -> JSON2AddItem(S, newItem)
      [] backend = "mysql" -> MySQLAddItem(S, newItem)

DeleteItem(S, id) ==
    CASE backend = "json" -> JSONDeleteItem(S, id)
      [] backend = "json2" -> JSON2DeleteItem(S, id)
      [] backend = "mysql" -> MySQLDeleteItem(S, id)

ToggleFavorite(S, id) ==
    CASE backend = "json" -> JSONToggleFavorite(S, id)
      [] backend = "json2" -> JSON2ToggleFavorite(S, id)
      [] backend = "mysql" -> MySQLToggleFavorite(S, id)

(* --------------- the store driven through its interface ---------------- *)
\* The two goroutines that call the store: the Monitor's poll loop and the UI
Threads == {"monitor", "ui"}
IdleCall == [pc |-> "idle", name |-> "", id |-> <<>>, item |-> NoItem, items |-> <<>>]

Returned(res, name, id, item) ==
    /\ db' = res.db
    /\ tomb' = res.tomb
    /\ files' = res.files
    /\ ret' = res.ret
    /\ err' = res.err
    /\ op' = [name |-> name, id |-> id, item |-> item, count |-> Len(db),
              keyword |-> <<>>, items |-> <<>>]

\* A caller makes an item with NewClipboardItem and hands it to AddItem
CallAddItem(itemType, content) ==
    /\ clock < MaxClock
    /\ \E r \in 0 .. RandN - 1 :
         LET item == NewClipboardItem(itemType, content, NoPath, clock + 1, r)
         IN Returned(AddItem(Store, item), "AddItem", item.id, item)
    /\ clock' = clock + 1
    /\ UNCHANGED <<backend, maxItems, app, lifeVars, concVars, monVars>>

AddText == \E c \in Texts : CallAddItem("Text", c)

\* The Monitor's image path: SaveImage has written the file, then the item
\* that names it is added.
AddImage ==
    /\ clock < MaxClock
    /\ \E r \in 0 .. RandN - 1, format \in Formats :
         LET path == SaveImagePath(clock + 1, format)
             item == NewClipboardItem("Image", ImageLabel, path, clock + 1, r)
             saved == [Store EXCEPT !.files = @ \cup {path}]
         IN Returned(AddItem(saved, item), "AddItem", item.id, item)
    /\ clock' = clock + 1
    /\ UNCHANGED <<backend, maxItems, app, lifeVars, concVars, monVars>>

\* the ids a caller passes: those of the stored items, and one that is stored nowhere
CallIds == {db[i].id : i \in 1 .. Len(db)} \cup {NoSuchId}

CallDeleteItem ==
    /\ \E id \in CallIds : Returned(DeleteItem(Store, id), "DeleteItem", id, NoItem)
    /\ UNCHANGED <<backend, maxItems, app, lifeVars, clock, concVars, monVars>>

CallToggleFavorite ==
    /\ \E id \in CallIds :
         Returned(ToggleFavorite(Store, id), "ToggleFavorite", id, NoItem)
    /\ UNCHANGED <<backend, maxItems, app, lifeVars, clock, concVars, monVars>>

\* The application as app.New leaves it: an empty history, and the Monitor
\* made by NewMonitor and started by setupClipboardListener.
Init ==
    /\ backend \in Backends
    /\ maxItems \in 1 .. MaxCap
    /\ db = <<>>
    /\ tomb = {}
    /\ files = {}
    /\ clock = 0
    /\ ret = <<>>
    /\ err = "ok"
    /\ op = [name |-> "New", id |-> <<>>, item |-> NoItem, count |-> 0,
             keyword |-> <<>>, items |-> <<>>]
    /\ calls = [t \in Threads |-> IdleCall]
    /\ started = [db |-> <<>>, tomb |-> {}, files |-> {}]
    /\ mu = "free"
    /\ cbText = ""
    /\ cbImage = "none"
    /\ lastText = ""
    /\ lastImageID = NoImageID
    /\ lastFileList = ""
    /\ changeChan = <<>>
    /\ loop = Asleep
    /\ isRunning = TRUE
    /\ stopChan = "open"
    /\ tasks = 1
    /\ startErr = "ok"
    /\ panicked = FALSE
    /\ app = AppInit

Next ==
    \/ AddText
    \/ AddImage
    \/ CallDeleteItem
    \/ CallToggleFavorite

Spec == Init /\ [][Next]_vars

(* ------------------------- store properties ---------------------------- *)
Ordered(s) ==
    \A i \in 1 .. Len(s) - 1 :
        \/ s[i].isFavorite /\ ~s[i + 1].isFavorite
        \/ s[i].isFavorite = s[i + 1].isFavorite /\ s[i].timestamp >= s[i + 1].timestamp
NonFavorites(d) == {i \in 1 .. Len(d) : ~d[i].isFavorite}
Favorites(d) == {i \in 1 .. Len(d) : d[i].isFavorite}
HasKey(d, x) == \E i \in 1 .. Len(d) : SameKey(d[i], x)
Mutation == {"AddItem", "DeleteItem", "ToggleFavorite"}

\* C1: the list returned by every successful AddItem, DeleteItem and
\* ToggleFavorite call is ordered favorites first, each group by descending
\* timestamp.
C1_ReturnedListOrdered == (op.name \in Mutation /\ err = "ok") => Ordered(ret)

\* C2: two successive AddItem calls with the same (content, type, imagePath)
\* together raise the item count by exactly one, the second returns a list of
\* the length the first returned, and the record that survives carries the
\* timestamp of the second call's item.
C2_Dedup ==
    [][(/\ op.name = "AddItem" /\ err = "ok"
        /\ op'.name = "AddItem" /\ err' = "ok"
        /\ SameKey(op.item, op'.item))
       => /\ Len(db') = op.count + 1
          /\ Len(ret') = Len(ret)
          /\ HasKey(db', op'.item)
          /\ \A i \in 1 .. Len(db') :
                SameKey(db'[i], op'.item) => db'[i].timestamp = op'.item.timestamp]_vars

\* C3: the number of non-favorite items in the store never exceeds MaxItems.
C3_Capacity == Cardinality(NonFavorites(db)) <= maxItems

\* C3's case: an AddItem of a new item made on a full store of non-favorites
C3_Witness ==
    /\ op.name = "AddItem" /\ err = "ok"
    /\ op.count = maxItems
    /\ op.item \in Range(db)
    /\ Cardinality(NonFavorites(db)) = maxItems

\* C4: while the favorites number at most MaxItems, an AddItem call removes no
\* favorite item from the store.
C4_FavoritesExempt ==
    [][(op'.name = "AddItem" /\ Cardinality(Favorites(db)) <= maxItems)
       => \A i \in Favorites(db) : HasId(db', db[i].id) /\ HasKey(db', db[i])]_vars

\* C5: when adding a new distinct item makes the count exceed MaxItems, the
\* items removed are the non-favorite items with the oldest timestamps and the
\* new item is in the returned list.
C5_EvictionVictim ==
    [][(/\ op'.name = "AddItem" /\ err' = "ok"
        /\ ~HasKey(db, op'.item)
        /\ Len(db) + 1 > maxItems)
       => LET removed == Range(db) \ Range(db')
              others == {x \in Range(db) : ~x.isFavorite} \ removed
          IN /\ op'.item \in Range(ret')
             /\ op'.item \in Range(db')
             /\ \A x \in removed : ~x.isFavorite
             /\ \A x \in removed, y \in others : x.timestamp < y.timestamp]_vars

\* C7: DeleteItem with an id that matches no stored item fails with
\* NotFoundError and leaves the stored records and the image files as they were.
C7_DeleteUnknown ==
    [][(op'.name = "DeleteItem" /\ ~HasId(db, op'.id))
       => /\ err' = "NotFound"
          /\ Range(db') = Range(db) /\ Len(db') = Len(db)
          /\ files' = files]_vars

\* C8: after a successful DeleteItem of a stored item no record with that id
\* remains, every other record is retained unchanged, and the image file of a
\* deleted Image item is gone.
C8_DeleteStored ==
    [][(op'.name = "DeleteItem" /\ err' = "ok" /\ HasId(db, op'.id))
       => /\ ~HasId(db', op'.id)
          /\ Range(db') = {x \in Range(db) : x.id # op'.id}
          /\ \A x \in Range(db) :
                (x.id = op'.id /\ x.type = "Image") => x.imagePath \notin files']_vars

\* C9: every Image item that an AddItem call's truncation to MaxItems removes
\* from the store has its image file deleted in that call.
C9_TruncationDeletesFiles ==
    [][(op'.name = "AddItem" /\ err' = "ok")
       => \A x \in Range(db) \cup {op'.item} :
             (x.type = "Image" /\ ~HasKey(db', x)) => x.imagePath \notin files']_vars

(* ------------- concurrent calls on one JSONStorage instance ------------ *)
\* The Monitor goroutine calls AddItem while a UI callback calls ToggleFavorite
\* or DeleteItem.  A call is two steps: LoadItems reads history.json, and the
\* rest of the call works on the loaded list and writes the file.  Only
\* part_001's DeleteItem takes the mutex, for the whole call.
TakesLock(t) == backend = "json2" /\ calls[t].name = "DeleteItem"

Issue ==
    /\ \A t \in Threads : calls[t].pc = "idle"
    /\ clock < MaxClock
    /\ \E c \in Texts, r \in 0 .. RandN - 1,
          name \in {"ToggleFavorite", "DeleteItem"}, id \in CallIds :
         calls' = [calls EXCEPT
                     !["monitor"] = [IdleCall EXCEPT !.pc = "start", !.name = "AddItem",
                                        !.item = NewClipboardItem("Text", c, NoPath, clock + 1, r)],
                     !["ui"] = [IdleCall EXCEPT !.pc = "start", !.name = name, !.id = id]]
    /\ started' = Store
    /\ clock' = clock + 1
    /\ UNCHANGED <<backend, maxItems, app, lifeVars, storeVars, mu, monVars>>

CallLoad(t) ==
    /\ calls[t].pc = "start"
    /\ IF TakesLock(t) THEN mu = "free" /\ mu' = t ELSE mu' = mu
    /\ calls' = [calls EXCEPT ![t].pc = "loaded", ![t].items = LoadItems(Store)]
    /\ UNCHANGED <<backend, maxItems, app, lifeVars, clock, storeVars, started, monVars>>

\* the call's work on the list it loaded
CallOut(f) ==
    CASE backend = "json" /\ f.name = "AddItem" -> JSONAddItemFrom(f.items, f.item)
      [] backend = "json" /\ f.name = "DeleteItem" -> JSONDeleteItemFrom(f.items, f.id)
      [] backend = "json" /\ f.name = "ToggleFavorite" -> JSONToggleFavoriteFrom(f.items, f.id)
      [] backend = "json2" /\ f.name = "AddItem" -> JSON2AddItemFrom(f.items, f.item)
      [] backend = "json2" /\ f.name = "DeleteItem" -> JSON2DeleteItemFrom(f.items, f.id)
      [] backend = "json2" /\ f.name = "ToggleFavorite" -> JSON2ToggleFavoriteFrom(f.items, f.id)

CallFinish(t) ==
    /\ calls[t].pc = "loaded"
    /\ LET out == CallOut(calls[t])
       IN /\ db' = IF out.write THEN out.db ELSE db
          /\ files' = files \ out.gone
    /\ mu' = IF TakesLock(t) THEN "free" ELSE mu
    /\ calls' = [calls EXCEPT ![t].pc = "done"]
    /\ UNCHANGED <<backend, maxItems, app, lifeVars, clock, tomb, ret, err, op, started, monVars>>

NoCalls == \A t \in Threads : calls[t].pc = "idle"

InitConc == Init /\ backend \in {"json", "json2"}

NextConc ==
    \/ NoCalls /\ AddText
    \/ NoCalls /\ AddImage
    \/ NoCalls /\ CallToggleFavorite
    \/ Issue
    \/ \E t \in Threads : CallLoad(t)
    \/ \E t \in Threads : CallFinish(t)

SpecConc == InitConc /\ [][NextConc]_vars

\* one whole call on store S
DoCall(S, f) ==
    CASE f.name = "AddItem" -> AddItem(S, f.item)
      [] f.name = "DeleteItem" -> DeleteItem(S, f.id)
      [] f.name = "ToggleFavorite" -> ToggleFavorite(S, f.id)
AsStore(res) == [db |-> res.db, tomb |-> res.tomb, files |-> res.files]
Persisted(S) == [items |-> Range(S.db), files |-> S.files]
SerialOutcomes ==
    {Persisted(AsStore(DoCall(AsStore(DoCall(started, calls[first])), calls[second]))) :
        <<first, second>> \in {<<"monitor", "ui">>, <<"ui", "monitor">>}}

\* C6: the load-modify-save sections of the Monitor's AddItem and of a
\* concurrent UI ToggleFavorite or DeleteItem never interleave: once both
\* calls have returned, the persisted records and image files are those that
\* one of the two serial orders of the calls leaves.
C6_Serializable ==
    (\A t \in Threads : calls[t].pc = "done") => Persisted(Store) \in SerialOutcomes

(* ------------- Processor (clipboard/processor.go) and Monitor ---------- *)
\* Clipboard payloads.  A text is a single token without separators, so that
\* checkFilePaths takes it whole as its one candidate path.
PathTexts == {"p"}
ClipTexts == Texts \cup PathTexts
Images == {"i1"}
BadImage == "bad"
FormatOf(data) == "png"

\* Processor.imageID: the clock second, the dimensions and the byte count
imageID(now, data) == <<Sec(now), data>>

\* Processor.CheckImage: no data is no image; bytes DecodeConfig rejects are an error
CheckImage(data, now) ==
    IF data = "none" THEN [isImage |-> FALSE, imageID |-> NoImageID, err |-> FALSE]
    ELSE IF data = BadImage THEN [isImage |-> FALSE, imageID |-> NoImageID, err |-> TRUE]
    ELSE [isImage |-> TRUE, imageID |-> imageID(now, data), err |-> FALSE]

\* Processor.SaveImage's ways out: Decode fails, os.Create fails (no file in
\* either case), the encoder fails after os.Create made the file, success.
SaveOutcomes == {"ok", "decodeFailed", "createFailed", "encodeFailed"}
SaveImageCreates(outcome) == outcome \in {"ok", "encodeFailed"}

isFileOrDirExists(path) == path \in PathTexts

\* Monitor.checkFilePaths on a text without separators
checkFilePaths(text) ==
    IF text = "" THEN <<FALSE, "">>
    ELSE IF isFileOrDirExists(text) THEN <<TRUE, text>>
    ELSE <<FALSE, "">>

\* storage.AddItem as the Monitor sees it: the store's I/O may fail
MonitorAddItem(S, item, fail) ==
    IF fail THEN Res(S.db, S.tomb, S.files, <<>>, "IOError") ELSE AddItem(S, item)

\* select { case changeChan <- items: ... default: ... }
TrySend(items) ==
    IF Len(changeChan) < ChanCap THEN Append(changeChan, items) ELSE changeChan

Now == clock + 1
ImageCheck == CheckImage(cbImage, Now)
ImageChanged == ~ImageCheck.err /\ ImageCheck.isImage /\ ImageCheck.imageID # lastImageID
FileCheck == checkFilePaths(cbText)
FileChanged == cbText # "" /\ FileCheck[1] /\ FileCheck[2] # lastFileList
TextChanged == cbText # "" /\ cbText # lastText /\ ~FileCheck[1]
\* the process has not died
Alive == ~panicked
\* Start's loop takes the select's default case: StopChan is not closed
Polling == Alive /\ loop.pc = "sleep" /\ stopChan = "open" /\ clock < MaxClock

\* checkClipboard taking the image branch: handleImageChange
PollImage ==
    /\ Polling
    /\ ImageChanged
    /\ \E outcome \in SaveOutcomes, fail \in BOOLEAN, r \in 0 .. RandN - 1,
          keepText \in BOOLEAN :
         LET path == SaveImagePath(Now, FormatOf(cbImage))
             written == IF SaveImageCreates(outcome) THEN {path} ELSE {}
             item == NewClipboardItem("Image", ImageLabel, path, Now, r)
             res == MonitorAddItem([Store EXCEPT !.files = @ \cup written], item, fail)
         IN IF outcome # "ok"
            THEN /\ lastImageID' = NoImageID
                 /\ files' = files \cup written
                 /\ UNCHANGED <<db, tomb, ret, err, op, cbText, cbImage, changeChan>>
            ELSE /\ lastImageID' = ImageCheck.imageID
                 /\ Returned(res, "AddItem", item.id, item)
                 /\ IF res.err # "ok"
                    THEN UNCHANGED <<cbText, cbImage, changeChan>>
                    ELSE /\ cbImage' = "none"
                         /\ cbText' = IF keepText THEN cbText ELSE ""
                         /\ changeChan' = TrySend(res.ret)
    /\ clock' = Now
    /\ UNCHANGED <<backend, maxItems, app, lifeVars, concVars, lastText, lastFileList, loop>>

\* checkClipboard taking the file branch: handleFileChange
PollFile ==
    /\ Polling
    /\ ~ImageChanged
    /\ FileChanged
    /\ \E fail \in BOOLEAN, r \in 0 .. RandN - 1 :
         LET item == NewClipboardItem("File", FileCheck[2], NoPath, Now, r)
             res == MonitorAddItem(Store, item, fail)
         IN /\ Returned(res, "AddItem", item.id, item)
            /\ changeChan' = IF res.err # "ok" THEN changeChan ELSE TrySend(res.ret)
    /\ lastFileList' = FileCheck[2]
    /\ clock' = Now
    /\ UNCHANGED <<backend, maxItems, app, lifeVars, concVars, cbText, cbImage, lastText, lastImageID, loop>>

\* checkClipboard taking the text branch: handleTextChange, whose send blocks
\* when the channel is full
PollText ==
    /\ Polling
    /\ ~ImageChanged
    /\ ~FileChanged
    /\ TextChanged
    /\ \E fail \in BOOLEAN, r \in 0 .. RandN - 1 :
         LET item == NewClipboardItem("Text", cbText, NoPath, Now, r)
             res == MonitorAddItem(Store, item, fail)
             seen == \E i \in 1 .. Len(res.ret) :
                        res.ret[i].type = "Text" /\ res.ret[i].content = cbText
         IN /\ Returned(res, "AddItem", item.id, item)
            /\ IF res.err # "ok"
               THEN UNCHANGED <<lastText, changeChan, loop>>
               ELSE /\ lastText' = IF seen THEN cbText ELSE lastText
                    /\ IF Len(changeChan) < ChanCap
                       THEN changeChan' = Append(changeChan, res.ret) /\ loop' = loop
                       ELSE changeChan' = changeChan
                            /\ loop' = [pc |-> "send", items |-> res.ret]
    /\ clock' = Now
    /\ UNCHANGED <<backend, maxItems, app, lifeVars, concVars, cbText, cbImage, lastImageID, lastFileList>>

\* checkClipboard finding no change
PollNothing ==
    /\ Polling
    /\ ~ImageChanged
    /\ ~FileChanged
    /\ ~TextChanged
    /\ clock' = Now
    /\ UNCHANGED <<backend, maxItems, app, lifeVars, storeVars, concVars, monVars>>

\* handleTextChange's blocked send goes through once the channel has room
FinishSend ==
    /\ Alive
    /\ loop.pc = "send"
    /\ Len(changeChan) < ChanCap
    /\ changeChan' = Append(changeChan, loop.items)
    /\ loop' = Asleep
    /\ UNCHANGED <<backend, maxItems, app, lifeVars, clock, storeVars, concVars,
                   cbText, cbImage, lastText, lastImageID, lastFileList>>

\* the UI receives a list from ChangeChan()
Receive ==
    /\ Alive
    /\ changeChan # <<>>
    /\ changeChan' = Tail(changeChan)
    /\ UNCHANGED <<backend, maxItems, app, lifeVars, clock, storeVars, concVars,
                   cbText, cbImage, lastText, lastImageID, lastFileList, loop>>

\* another application copies a text, or an image
CopyText ==
    /\ \E t \in ClipTexts : cbText' = t
    /\ cbImage' = "none"
    /\ UNCHANGED <<backend, maxItems, app, lifeVars, clock, storeVars, concVars,
                   lastText, lastImageID, lastFileList, changeChan, loop>>

CopyImage ==
    /\ \E i \in Images \cup {BadImage} : cbImage' = i
    /\ cbText' = ""
    /\ UNCHANGED <<backend, maxItems, app, lifeVars, clock, storeVars, concVars,
                   lastText, lastImageID, lastFileList, changeChan, loop>>

NextMon ==
    \/ PollImage
    \/ PollFile
    \/ PollText
    \/ PollNothing
    \/ FinishSend
    \/ Receive
    \/ CopyText
    \/ CopyImage
    \/ CallDeleteItem

SpecMon == Init /\ [][NextMon]_vars

\* C10: every image file the Monitor has written to the image directory is
\* named by the imagePath of some stored record.
C10_NoOrphanFiles == \A f \in files : \E i \in 1 .. Len(db) : db[i].imagePath = f

(* ------------------------ the Monitor's poll cycles --------------------- *)
\* a step that is one poll cycle: checkClipboard run from the sleeping loop
PollCycle == loop.pc = "sleep" /\ clock' = clock + 1
\* the cycle handed a list to the notification channel, or holds one to send
Emitted == Len(changeChan') = Len(changeChan) + 1 \/ loop'.pc = "send"
\* the last store call is the Monitor's successful AddItem of an item of type ty
Recorded(ty) == op.name = "AddItem" /\ err = "ok" /\ op.item.type = ty

\* C11: when the text seen by a poll cycle differs from the text the preceding
\* change cycle recorded (x, then y, then x again), the cycle emits a change
\* event of its own, provided its AddItem call succeeds; no image is present
\* and the texts resolve to no existing path.
C11_ReturnToTextEmits ==
    [][(/\ PollCycle
        /\ Recorded("Text")
        /\ cbImage = "none" /\ cbText \in Texts /\ cbText # op.item.content
        /\ err' = "ok")
       => Emitted /\ op'.item.content = cbText]_vars

(* ----------------------- Monitor.Start and Monitor.Stop ----------------- *)
\* a Start that lacks the guard
StartNeverRefused == FALSE

\* Start's guard: if m.isRunning { return errors.New(...) }
StartRefused == isRunning

\* Start: refused while isRunning is set; otherwise the flag is set and the
\* goroutine running the poll loop is started.
Start ==
    /\ Alive
    /\ IF StartRefused
       THEN /\ startErr' = "AlreadyRunning"
            /\ UNCHANGED <<isRunning, tasks, loop>>
       ELSE /\ startErr' = "ok"
            /\ isRunning' = TRUE
            /\ tasks' = tasks + 1
            /\ loop' = Asleep
    /\ UNCHANGED <<backend, maxItems, app, clock, storeVars, concVars, stopChan, panicked,
                   cbText, cbImage, lastText, lastImageID, lastFileList, changeChan>>

\* Stop: nothing while isRunning is clear; otherwise close(m.StopChan), which
\* panics on a channel that is closed already, and a sleep of 100 ms.
Stop ==
    /\ Alive
    /\ IF ~isRunning
       THEN UNCHANGED <<stopChan, panicked>>
       ELSE IF stopChan = "closed"
            THEN panicked' = TRUE /\ stopChan' = stopChan
            ELSE stopChan' = "closed" /\ panicked' = panicked
    /\ UNCHANGED <<backend, maxItems, app, clock, storeVars, concVars, monVars,
                   isRunning, tasks, startErr>>

\* The loop's select finds StopChan closed: the goroutine returns and its
\* deferred function clears isRunning.
LoopExit ==
    /\ Alive
    /\ loop.pc = "sleep"
    /\ stopChan = "closed"
    /\ loop' = Exited
    /\ isRunning' = FALSE
    /\ tasks' = tasks - 1
    /\ UNCHANGED <<backend, maxItems, app, clock, storeVars, concVars, stopChan, startErr,
                   panicked, cbText, cbImage, lastText, lastImageID, lastFileList,
                   changeChan>>

\* The Monitor's life with a text clipboard: the application starts and stops
\* it while the loop polls and the consumer receives when it pleases.
NextLife ==
    \/ Start
    \/ Stop
    \/ LoopExit
    \/ PollFile
    \/ PollText
    \/ PollNothing
    \/ FinishSend
    \/ Receive
    \/ CopyText

SpecLife == Init /\ [][NextLife]_vars
\* The goroutine of the poll loop is scheduled again and again; nothing makes
\* the consumer receive.
LoopStep == LoopExit \/ PollFile \/ PollText \/ PollNothing \/ FinishSend
SpecLifeFair == SpecLife /\ WF_vars(LoopStep)

\* C12: with the notification channel full and a consumer that receives no
\* more, a poll cycle that detected a change still completes: the loop leaves
\* the handler's send and goes on to its next cycle (in a process that lives).
C12_PollingNotBlocked == (loop.pc = "send") ~> (loop.pc # "send" \/ panicked)
\* C13: once Stop has closed StopChan on a running monitor, the poll-loop
\* goroutine eventually returns in every execution of a living process, also
\* with the channel full and no consumer, and no further poll cycle is run
\* after the close.
C13_StopTerminates ==
    /\ (stopChan = "closed") ~> (tasks = 0 \/ panicked)
    /\ [][stopChan = "closed" => ~PollCycle]_vars
\* C14: a Start call made while a poll-loop goroutine exists returns the
\* already-running error and starts nothing, and at no time does more than one
\* poll-loop goroutine exist for the Monitor.
C14_SingleLoop ==
    /\ [](tasks <= 1)
    /\ [][(Start /\ tasks > 0)
           => (startErr' = "AlreadyRunning" /\ tasks' = tasks /\ loop' = loop)]_vars

\* C14's case: Start has been refused on a monitor whose loop is running
C14_Witness == startErr = "AlreadyRunning" /\ tasks = 1 /\ loop.pc # "exited"
\* C15: whatever the sequence of Stop calls, StopChan is closed at most once
\* and no call panics, and a Stop call on a monitor whose loop has returned
\* changes nothing.
C15_StopIdempotent ==
    /\ [](~panicked)
    /\ [][(Stop /\ tasks = 0) => UNCHANGED vars]_vars
\* the poll cycle called AddItem: the store's last call carries the cycle's tick
CalledAddItem == PollCycle /\ op'.name = "AddItem" /\ op'.item.timestamp = clock'

\* C16: a poll cycle whose AddItem call fails leaves lastText, lastImageID and
\* lastFileList as they were, so that the same change is detected again.
C16_FailedAddKeepsSlots ==
    [][(CalledAddItem /\ err' # "ok")
       => UNCHANGED <<lastText, lastImageID, lastFileList>>]_vars
(* ------------- a clipboard that offers an image and a text ------------- *)
\* another application copies content that it offers in both formats
CopyBoth ==
    /\ \E i \in Images \cup {BadImage}, t \in ClipTexts : cbImage' = i /\ cbText' = t
    /\ UNCHANGED <<backend, maxItems, app, lifeVars, clock, storeVars, concVars,
                   lastText, lastImageID, lastFileList, changeChan, loop>>

NextRich ==
    \/ PollImage
    \/ PollFile
    \/ PollText
    \/ PollNothing
    \/ FinishSend
    \/ Receive
    \/ CopyText
    \/ CopyImage
    \/ CopyBoth

SpecRich == Init /\ [][NextRich]_vars

\* C17: a poll cycle that finds a decodable image on the clipboard adds no
\* File and no Text item, whether or not the image's fingerprint is new; a
\* cycle whose text resolves to an existing path adds no Text item; and a
\* cycle adds at most one item.
C17_SingleWinner ==
    [][PollCycle
       => /\ (ImageCheck.isImage /\ CalledAddItem) => op'.item.type = "Image"
          /\ (FileCheck[1] /\ CalledAddItem) => op'.item.type # "Text"
          /\ Len(db') <= Len(db) + 1]_vars
\* C18: a poll cycle that finds on the clipboard the text or file path that
\* the preceding cycle recorded with a successful AddItem calls no AddItem,
\* publishes nothing and changes no last-seen slot, on every store and for
\* every MaxItems.
C18_SteadyStateNoOp ==
    [][(/\ PollCycle
        /\ Recorded("Text") \/ Recorded("File")
        /\ cbImage = "none" /\ cbText = op.item.content)
       => UNCHANGED <<db, files, op, changeChan, loop, lastText, lastImageID,
                      lastFileList>>]_vars
\* the type checkClipboard's priority gives the cycle
Winner == IF ImageCheck.isImage /\ ~ImageCheck.err THEN "Image"
          ELSE IF FileCheck[1] THEN "File" ELSE "Text"

\* C19: a poll cycle that calls AddItem with success, the channel having
\* room, adds an item of the winning type, sets that type's last-seen slot to
\* the new fingerprint and leaves the other two slots alone, and the list
\* AddItem returned is the list put on the notification channel.
C19_ChangeStep ==
    [][(CalledAddItem /\ err' = "ok" /\ Len(changeChan) < ChanCap)
       => /\ op'.item.type = Winner
          /\ Winner = "Image" => /\ lastImageID' = ImageCheck.imageID
                                 /\ UNCHANGED <<lastText, lastFileList>>
          /\ Winner = "File" => /\ lastFileList' = FileCheck[2]
                                /\ UNCHANGED <<lastText, lastImageID>>
          /\ Winner = "Text" => /\ lastText' = cbText
                                /\ UNCHANGED <<lastImageID, lastFileList>>
          /\ changeChan' = Append(changeChan, ret')]_vars
\* the Image records that name the image file `path`
ImageItemsOf(path) == {i \in 1 .. Len(db) : db[i].type = "Image" /\ db[i].imagePath = path}
\* the Monitor's last store call recorded an image and nothing has been copied since
ImageSettled == Recorded("Image") /\ cbImage = "none" /\ cbText = ""

\* C20: a poll cycle that records an image with success clears the clipboard's
\* image slot, and as long as nothing else is copied the history holds exactly
\* one Image item for that copy, with its one image file.
C20_OneImagePerCopy ==
    /\ [][(CalledAddItem /\ op'.item.type = "Image" /\ err' = "ok")
           => cbImage' = "none"]_vars
    /\ [](ImageSettled => /\ Cardinality(ImageItemsOf(op.item.imagePath)) = 1
                          /\ op.item.imagePath \in files)
\* C21: a poll cycle in which CheckImage returns an error, or in which
\* SaveImage fails, is abandoned: it adds no item of any type and publishes
\* nothing, and the loop stays running for the cycles that follow.
C21_ErrorAbandonsCycle ==
    [][(/\ PollCycle
        /\ ImageCheck.err \/ (ImageChanged /\ lastImageID' = NoImageID))
       => /\ ~CalledAddItem
          /\ UNCHANGED <<db, op, changeChan, loop, isRunning, tasks>>]_vars
\* C22: ToggleFavorite with an id that matches no stored item fails with
\* NotFoundError and leaves every stored item as it was.
C22_ToggleUnknown ==
    [][(op'.name = "ToggleFavorite" /\ ~HasId(db, op'.id))
       => err' = "NotFound" /\ db' = db]_vars
(* ------------------------------- Search -------------------------------- *)
\* Contents and keywords are sequences of characters here, so that a match
\* can look inside them.
SearchWords == {<<"a", "b">>, <<"A">>, <<"%">>}
Keywords == {<<>>, <<"a">>, <<"B">>, <<"%">>, <<"a", "b">>}

\* strings.ToLower, and the case folding of the table's default collation
ToLowerChar(c) == CASE c = "A" -> "a" [] c = "B" -> "b" [] OTHER -> c
ToLower(s) == [i \in 1 .. Len(s) |-> ToLowerChar(s[i])]

\* strings.Contains
Contains(s, k) == \E i \in 0 .. Len(s) - Len(k) : SubSeq(s, i + 1, i + Len(k)) = k

\* the LIKE operator: % matches any run of characters, _ any one character
RECURSIVE Like(_, _)
Like(s, pattern) ==
    IF pattern = <<>> THEN s = <<>>
    ELSE IF Head(pattern) = "%"
         THEN Like(s, Tail(pattern)) \/ (s # <<>> /\ Like(Tail(s), pattern))
    ELSE IF Head(pattern) = "_"
         THEN s # <<>> /\ Like(Tail(s), Tail(pattern))
    ELSE /\ s # <<>>
         /\ ToLowerChar(Head(s)) = ToLowerChar(Head(pattern))
         /\ Like(Tail(s), Tail(pattern))

JSONSearch(items, keyword) ==
    IF keyword = <<>> THEN items
    ELSE SelectSeq(items, LAMBDA x : Contains(ToLower(x.content), ToLower(keyword)))

MySQLSearch(rows, keyword) ==
    IF keyword = <<>> THEN MySQLLoadItems(rows)
    ELSE SelectSeq(SortSeq(rows, MySQLNewestFirst),
                   LAMBDA x : Like(x.content, <<"%">> \o keyword \o <<"%">>))

Search(S, keyword) ==
    CASE backend = "json" -> JSONSearch(JSONLoadItems(S.db), keyword)
      [] backend = "json2" -> JSONSearch(JSON2LoadItems(S.db), keyword)
      [] backend = "mysql" -> MySQLSearch(S.db, keyword)

AddWord == \E c \in SearchWords : CallAddItem("Text", c)

CallSearch ==
    /\ \E k \in Keywords :
         /\ ret' = Search(Store, k)
         /\ op' = [name |-> "Search", id |-> <<>>, item |-> NoItem, count |-> Len(db),
                   keyword |-> k, items |-> <<>>]
    /\ err' = "ok"
    /\ UNCHANGED <<backend, maxItems, app, lifeVars, clock, db, tomb, files, concVars, monVars>>

NextSearch ==
    \/ AddWord
    \/ CallToggleFavorite
    \/ CallSearch

SpecSearch == Init /\ [][NextSearch]_vars

\* C23: Search(keyword) returns exactly the stored items whose content
\* contains the keyword as a substring when letter case is ignored, in the
\* order of LoadItems, the whole of LoadItems for the empty keyword, and it
\* changes nothing in the store.
C23_SearchExact ==
    [][op'.name = "Search"
       => /\ UNCHANGED <<db, tomb, files>>
          /\ ret' = SelectSeq(LoadItems(Store),
                              LAMBDA x : Contains(ToLower(x.content), ToLower(op'.keyword)))]_vars
(* ------------------------ SaveItems and LoadItems ----------------------- *)
\* MySQLStorage.SaveItems: every live row is marked deleted, then the list is
\* inserted in one statement, which an empty list or a primary key that a row
\* (live or marked deleted) already has makes fail, after the delete.
MySQLSaveItems(S, items) ==
    LET gone == S.tomb \cup {S.db[i].id : i \in 1 .. Len(S.db)}
        clash == \/ \E i \in 1 .. Len(items) : items[i].id \in gone
                 \/ \E i, j \in 1 .. Len(items) : i # j /\ items[i].id = items[j].id
    IN IF items = <<>> THEN Res(<<>>, gone, S.files, <<>>, "EmptySlice")
       ELSE IF clash THEN Res(<<>>, gone, S.files, <<>>, "Duplicate")
       ELSE Res(items, gone, S.files, <<>>, "ok")

SaveItems(S, items) ==
    CASE backend = "json" -> Res(JSONSaveItems(items), S.tomb, S.files, <<>>, "ok")
      [] backend = "json2" -> Res(JSON2SaveItems(items), S.tomb, S.files, <<>>, "ok")
      [] backend = "mysql" -> MySQLSaveItems(S, items)

\* the items a caller may hand to SaveItems, and the lists made of them
SavePool == {NewClipboardItem("Text", c, NoPath, t, 0) : c \in Texts, t \in 1 .. MaxCap}
SaveLists ==
    {l \in UNION {[1 .. n -> SavePool] : n \in 0 .. MaxCap + 1} :
        \A i, j \in 1 .. Len(l) : i # j => l[i] # l[j]}

CallSaveItems ==
    /\ \E items \in SaveLists :
         LET res == SaveItems(Store, items)
         IN /\ db' = res.db
            /\ tomb' = res.tomb
            /\ err' = res.err
            /\ op' = [name |-> "SaveItems", id |-> <<>>, item |-> NoItem, count |-> Len(db),
                      keyword |-> <<>>, items |-> items]
    /\ UNCHANGED <<backend, maxItems, app, lifeVars, clock, files, ret, concVars, monVars>>

CallLoadItems ==
    /\ ret' = LoadItems(Store)
    /\ err' = "ok"
    /\ op' = [name |-> "LoadItems", id |-> <<>>, item |-> NoItem, count |-> Len(db),
              keyword |-> <<>>, items |-> <<>>]
    /\ UNCHANGED <<backend, maxItems, app, lifeVars, clock, db, tomb, files, concVars, monVars>>

NextSave ==
    \/ CallSaveItems
    \/ CallLoadItems

SpecSave == Init /\ [][NextSave]_vars

\* C24: LoadItems called after a successful SaveItems(items) returns a list
\* with exactly the items of `items`, every field equal, in whatever order,
\* whether the list is longer than MaxItems or not.
C24_SaveLoadRoundTrip ==
    [][(op.name = "SaveItems" /\ err = "ok" /\ op'.name = "LoadItems")
       => Range(ret') = Range(op.items) /\ Len(ret') = Len(op.items)]_vars
\* C25: from the empty store, whatever AddItem, DeleteItem and ToggleFavorite
\* calls are made, no two stored items have the same (content, type,
\* imagePath).
C25_KeyUnique ==
    \A i, j \in 1 .. Len(db) : i # j => ~SameKey(db[i], db[j])

\* C25's case: an AddItem of an item whose key is stored already has returned
\* and the store, not yet full, has not grown
C25_Witness ==
    /\ op.name = "AddItem" /\ err = "ok"
    /\ op.count >= 1 /\ op.count < maxItems
    /\ Len(db) = op.count
    /\ HasKey(db, op.item)

(* --------------- Monitor.SetContent (clipboard/monitor.go) ------------- *)
\* The two Processor.SetImageToClipboard implementations of the repository
Processors == {"processor.go", "part_011"}
\* What SetContent may be handed: nil (NoItem), a text, an image with and
\* without a path, a file item, and an item whose type is none of the three
StoredImagePath == SaveImagePath(1, "png")
SetInputs ==
    {NoItem,
     NewClipboardItem("Text", "a", NoPath, 1, 0),
     NewClipboardItem("Image", ImageLabel, StoredImagePath, 1, 0),
     NewClipboardItem("Image", ImageLabel, NoPath, 1, 0),
     NewClipboardItem("File", "p", NoPath, 1, 0),
     NewClipboardItem("Other", "a", NoPath, 1, 0)}
\* What is at an image path when SetContent is called: nothing, a directory,
\* a file of length zero, a file that cannot be read, or a file with bytes
FileBytes == "i1"
DiskStates == {"missing", "dir", "empty", "unreadable", FileBytes}
\* What the clipboard's image slot holds once clipboard.Write has returned and
\* 200 ms have passed: the bytes written, nothing, or another image
ReadBacks == {FileBytes, "none", BadImage}

Clip(e, t, i) == [err |-> e, text |-> t, image |-> i]

\* Processor.SetImageToClipboard of clipboard/processor.go
SetImageToClipboardOld(disk, readBack, keepText) ==
    IF disk = "missing" THEN Clip("FileNotFound", cbText, cbImage)
    ELSE IF disk \in {"dir", "unreadable"} THEN Clip("ReadFailed", cbText, cbImage)
    ELSE IF disk = "empty" THEN Clip("ok", IF keepText THEN cbText ELSE "", "none")
    ELSE Clip("ok", "", readBack)

\* Processor.SetImageToClipboard of part_011
SetImageToClipboardNew(disk, readBack) ==
    IF disk = "missing" THEN Clip("FileNotFound", cbText, cbImage)
    ELSE IF disk = "dir" THEN Clip("IsDir", cbText, cbImage)
    ELSE IF disk = "empty" THEN Clip("EmptyFile", cbText, cbImage)
    ELSE IF disk = "unreadable" THEN Clip("ReadFailed", cbText, cbImage)
    ELSE IF readBack # disk THEN Clip("Integrity", "", readBack)
    ELSE Clip("ok", "", readBack)

SetImageToClipboard(proc, disk, readBack, keepText) ==
    IF proc = "processor.go" THEN SetImageToClipboardOld(disk, readBack, keepText)
    ELSE SetImageToClipboardNew(disk, readBack)

\* Monitor.SetContent's switch
SetContentResult(item, proc, disk, readBack, keepText) ==
    IF item = NoItem THEN Clip("InvalidItem", cbText, cbImage)
    ELSE IF item.type = "Text" THEN Clip("ok", item.content, "none")
    ELSE IF item.type = "Image"
         THEN IF item.imagePath = NoPath THEN Clip("EmptyPath", cbText, cbImage)
              ELSE SetImageToClipboard(proc, disk, readBack, keepText)
    ELSE IF item.type = "File" THEN Clip("ok", item.content, "none")
    ELSE Clip("Unsupported", cbText, cbImage)

\* A call of SetContent by the application built with Processor `proc`
SetContent(proc) ==
    /\ \E item \in SetInputs, disk \in DiskStates, readBack \in ReadBacks,
          keepText \in BOOLEAN :
         LET r == SetContentResult(item, proc, disk, readBack, keepText)
         IN /\ cbText' = r.text
            /\ cbImage' = r.image
            /\ err' = r.err
            /\ op' = [name |-> "SetContent", id |-> item.id, item |-> item,
                      count |-> Len(db), keyword |-> <<>>, items |-> <<>>,
                      proc |-> proc, disk |-> disk]
    /\ UNCHANGED <<backend, maxItems, app, lifeVars, clock, db, tomb, files, ret, concVars,
                   lastText, lastImageID, lastFileList, changeChan, loop>>

NextSet ==
    \/ SetContent("processor.go")
    \/ SetContent("part_011")
    \/ CopyText
    \/ CopyImage

SpecSet == Init /\ [][NextSet]_vars

\* a step that is a SetContent call
CalledSetContent == \E proc \in Processors : SetContent(proc)

\* C26: SetContent(nil) fails with InvalidItemError, an Image item without a
\* path fails with EmptyPathError, a Text item's content is written to the
\* text slot, an item that is neither Text nor Image fails with
\* UnsupportedTypeError, and a failing call leaves the clipboard as it was.
C26_SetContentErrors ==
    [][CalledSetContent
       => /\ (op'.item = NoItem) => err' = "InvalidItem"
          /\ (op'.item.type = "Image" /\ op'.item.imagePath = NoPath)
                => err' = "EmptyPath"
          /\ (op'.item.type = "Text") => err' = "ok" /\ cbText' = op'.item.content
          /\ (op'.item # NoItem /\ op'.item.type \notin {"Text", "Image"})
                => err' = "Unsupported"
          /\ (err' # "ok") => UNCHANGED <<cbText, cbImage>>]_vars

\* a SetContent call that reaches Processor.SetImageToClipboard
PublishedImage ==
    CalledSetContent /\ op'.item.type = "Image" /\ op'.item.imagePath # NoPath

\* C30: publishing an image file fails with FileNotFoundError when the file is
\* missing and with EmptyFileError when it has length zero, both without
\* writing to the clipboard; it fails with IntegrityError when the clipboard
\* read back after the write differs from the file's bytes, and it succeeds
\* only if the read-back equals them.
C30_PublishImage ==
    [][PublishedImage
       => /\ (op'.disk = "missing")
                => err' = "FileNotFound" /\ UNCHANGED <<cbText, cbImage>>
          /\ (op'.disk = "empty")
                => err' = "EmptyFile" /\ UNCHANGED <<cbText, cbImage>>
          /\ (op'.disk = FileBytes /\ cbImage' # FileBytes) => err' = "Integrity"
          /\ (err' = "ok") => op'.disk = FileBytes /\ cbImage' = FileBytes]_vars

(* ------------------------ the full-channel policy ---------------------- *)
\* The last poll cycle's AddItem succeeded and the loop went back to sleep with
\* the channel full and the returned list not queued: the update was dropped.
DroppedUpdate ==
    /\ op.name = "AddItem" /\ op.item.timestamp = clock /\ err = "ok"
    /\ loop.pc = "sleep"
    /\ Len(changeChan) = ChanCap
    /\ changeChan[ChanCap] # ret
\* The loop waits in its send for room in the channel
BlockedUpdate == loop.pc = "send"

\* C27: with the notification channel full, a Text change, an Image change
\* and a File change are handled the same way, all dropped or all blocking:
\* the Monitor that has just dropped an update on the full channel does not
\* block on the update of its next cycle.
C27_UniformPolicy == [][DroppedUpdate => ~BlockedUpdate']_vars

(* --------------------------- ids and file names ------------------------ *)
\* C28: no two items held by the store have the same id, items made within
\* the same clock second included, so that DeleteItem(id) and
\* ToggleFavorite(id) affect exactly one item.
C28_IdsUnique ==
    \A i, j \in 1 .. Len(db) : i # j => db[i].id # db[j].id

\* another application copies an image of other dimensions
OtherImage == "i2"
CopyOtherImage ==
    /\ cbImage' = OtherImage
    /\ cbText' = ""
    /\ UNCHANGED <<backend, maxItems, app, lifeVars, clock, storeVars, concVars,
                   lastText, lastImageID, lastFileList, changeChan, loop>>

\* the Monitor polling a clipboard on which images follow one another
NextImg ==
    \/ PollImage
    \/ PollNothing
    \/ CopyImage
    \/ CopyOtherImage
    \/ Receive

SpecImg == Init /\ [][NextImg]_vars

\* a poll cycle in which SaveImage succeeded and the item was handed to AddItem
SavedImage == PollImage /\ op'.name = "AddItem" /\ op'.item.timestamp = clock'

\* C29: two successful saves of two image changes never give the same file
\* path, within the same clock second included: the path of a save is not
\* the path of a stored image, so the save writes over no stored image's file
\* and its record is not taken for a duplicate.
C29_ImageNamesUnique ==
    [][SavedImage => op'.item.imagePath \notin ImagePathsOf(Range(db))]_vars

(* ------------- Monitor.checkFilePaths on texts with separators --------- *)
\* Texts as sequences of characters: two path names that exist, one that does
\* not, and the characters of the four separators
MaxTextLen == 4
PathChars == {"p", "q", "x"}
TextChars == PathChars \cup {"CR", "LF", ";", "TAB"}
RawTexts == UNION {[1 .. n -> TextChars] : n \in 0 .. MaxTextLen}
\* separators := []string{"\r\n", "\n", ";", "\t"}
Separators == << <<"CR", "LF">>, <<"LF">>, <<";">>, <<"TAB">> >>
SpaceChars == {"CR", "LF", "TAB"}

StartsWith(s, sep) == Len(s) >= Len(sep) /\ SubSeq(s, 1, Len(sep)) = sep

\* strings.Split(s, sep) for a non-empty sep
RECURSIVE SplitFrom(_, _, _)
SplitFrom(s, sep, cur) ==
    IF s = <<>> THEN <<cur>>
    ELSE IF StartsWith(s, sep)
         THEN <<cur>> \o SplitFrom(SubSeq(s, Len(sep) + 1, Len(s)), sep, <<>>)
         ELSE SplitFrom(Tail(s), sep, Append(cur, Head(s)))
Split(s, sep) == SplitFrom(s, sep, <<>>)

\* strings.TrimSpace
RECURSIVE TrimLeft(_)
TrimLeft(s) ==
    IF s # <<>> /\ Head(s) \in SpaceChars THEN TrimLeft(Tail(s)) ELSE s
RECURSIVE TrimRight(_)
TrimRight(s) ==
    IF s # <<>> /\ s[Len(s)] \in SpaceChars
    THEN TrimRight(SubSeq(s, 1, Len(s) - 1)) ELSE s
TrimSpace(s) == TrimRight(TrimLeft(s))

\* strings.Join(paths, ";")
RECURSIVE Join(_)
Join(paths) ==
    IF paths = <<>> THEN <<>>
    ELSE IF Len(paths) = 1 THEN paths[1]
    ELSE paths[1] \o <<";">> \o Join(Tail(paths))

\* isFileOrDirExists: the files p and q exist
pathExists(path) == path \in {<<"p">>, <<"q">>}

\* the loop over separators: the first one whose Split has more than one part
RECURSIVE splitParts(_, _)
splitParts(text, k) ==
    IF k > Len(Separators) THEN <<text>>
    ELSE IF Len(Split(text, Separators[k])) > 1 THEN Split(text, Separators[k])
    ELSE splitParts(text, k + 1)

\* the loop over paths: trim, skip the empty ones, keep the existing ones
validPathsOf(paths) ==
    SelectSeq([i \in 1 .. Len(paths) |-> TrimSpace(paths[i])],
              LAMBDA path : path # <<>> /\ pathExists(path))

\* Monitor.checkFilePaths
checkFilePathsText(text) ==
    IF text = <<>> THEN <<FALSE, <<>>>>
    ELSE LET validPaths == validPathsOf(splitParts(text, 1))
         IN IF Len(validPaths) > 0 THEN <<TRUE, Join(validPaths)>>
            ELSE <<FALSE, <<>>>>

\* the first poll's checkClipboard hands the clipboard's text to checkFilePaths
CallCheckFilePaths ==
    /\ clock = 0
    /\ \E text \in RawTexts :
         /\ ret' = checkFilePathsText(text)
         /\ op' = [name |-> "checkFilePaths", id |-> <<>>, item |-> NoItem,
                   count |-> Len(db), keyword |-> text, items |-> <<>>]
    /\ clock' = 1
    /\ UNCHANGED <<backend, maxItems, app, lifeVars, db, tomb, files, err,
                   concVars, monVars>>

NextPaths == CallCheckFilePaths

SpecPaths == Init /\ [][NextPaths]_vars

\* the segments of a split that are not empty
NonEmptyParts(text, sep) == SelectSeq(Split(text, sep), LAMBDA part : part # <<>>)
\* the first separator of the list whose split has more than one of them
RECURSIVE chosenParts(_, _)
chosenParts(text, k) ==
    IF k > Len(Separators) THEN <<text>>
    ELSE IF Len(NonEmptyParts(text, Separators[k])) > 1
         THEN NonEmptyParts(text, Separators[k])
    ELSE chosenParts(text, k + 1)

\* C31: file detection takes, in the order CRLF, LF, semicolon, tab, the
\* first separator whose split of the text has more than one non-empty
\* segment, and the whole text as one candidate path if there is none; the
\* existing candidates, joined by semicolons, are the file list.
C31_SeparatorChoice ==
    (op.name = "checkFilePaths" /\ op.keyword # <<>>)
       => LET valid == validPathsOf(chosenParts(op.keyword, 1))
          IN ret = <<Len(valid) > 0, Join(valid)>>

(* --------------------------- ToggleFavorite's frame -------------------- *)
\* two lists hold the same items, each as many times
Copies(s, x) == Cardinality({i \in 1 .. Len(s) : s[i] = x})
SameItems(s, t) ==
    /\ Len(s) = Len(t)
    /\ \A x \in Range(s) \cup Range(t) : Copies(s, x) = Copies(t, x)

\* the store after a call's result
After(res) == [db |-> res.db, tomb |-> res.tomb, files |-> res.files]

\* a step that is a ToggleFavorite call with the id of a stored item
ToggledStored == op'.name = "ToggleFavorite" /\ HasId(db, op'.id)

\* ToggleFavorite(id) twice in a row on the store as it is
ToggleTwice(id) == ToggleFavorite(After(ToggleFavorite(Store, id)), id)

\* C32: ToggleFavorite(id) on a stored item flips isFavorite of one item with
\* that id and changes nothing else (the number of items, the other items and
\* every other field stay), and two ToggleFavorite(id) calls in a row give
\* the store's contents back.
C32_ToggleFrame ==
    /\ [][ToggledStored
          => /\ err' = "ok"
             /\ \E i \in 1 .. Len(db) :
                  /\ db[i].id = op'.id
                  /\ SameItems(db', [db EXCEPT ![i].isFavorite = ~@])
             /\ UNCHANGED <<tomb, files>>]_vars
    /\ [](\A i \in 1 .. Len(db) : SameItems(ToggleTwice(db[i].id).db, db))

\* C33: the list a successful AddItem, DeleteItem or ToggleFavorite returns
\* is the store's current view: the same items in the same order as a
\* LoadItems call made right after it returns.
C33_ReturnedIsView ==
    (op.name \in Mutation /\ err = "ok") => ret = LoadItems(Store)

(* ----------------------- DeleteItem on failing I/O --------------------- *)
\* DeleteItem whose write of the remaining records fails (SaveItems' WriteFile,
\* the DELETE statement): os.Remove has run before it, the records stay and
\* the error is returned.  A call that fails before it fails as it does.
DeleteItemSaveFails(S, id) ==
    LET done == DeleteItem(S, id)
    IN IF done.err # "ok" THEN done
       ELSE Res(S.db, S.tomb, done.files, <<>>, "IOError")

CallDeleteItemSaveFails ==
    /\ \E id \in CallIds :
         Returned(DeleteItemSaveFails(Store, id), "DeleteItem", id, NoItem)
    /\ UNCHANGED <<backend, maxItems, app, lifeVars, clock, concVars, monVars>>

NextDel ==
    \/ AddText
    \/ AddImage
    \/ CallDeleteItem
    \/ CallDeleteItemSaveFails

SpecDel == Init /\ [][NextDel]_vars

\* the stored Image items a DeleteItem call names, their files on disk
DeletedImages ==
    {x \in Range(db) : /\ x.id = op'.id
                       /\ x.type = "Image" /\ x.imagePath \in files}

\* C34: deleting an Image item is atomic: when DeleteItem has returned, with
\* or without an error, the record and its file are both gone or both still
\* there, and a failed DeleteItem leaves the store and the files unchanged.
C34_DeleteAtomic ==
    [][(op'.name = "DeleteItem" /\ DeletedImages # {})
       => /\ \A x \in DeletedImages : x \in Range(db') <=> x.imagePath \in files'
          /\ err' # "ok" => UNCHANGED <<db, tomb, files>>]_vars

(* ------------------- Application (src/unnamed/part_010) ---------------- *)
\* Everything but the store's contents, the clock and the Application
appFrame == <<backend, maxItems, concVars, monVars, lifeVars>>

\* Close is a no-op on both JSON stores and closes the connection pool on MySQL
StoreClosed(g) == backend = "mysql" /\ g \in app.closed
ClosedResult == Res(db, tomb, files, <<>>, "Closed")

\* Monitor.isRunning of Monitor g
AppRunning(g) == app.loops[g] \in {"sleep", "cycle", "send"}

\* Monitor g's loop takes the select's default case and enters checkClipboard
LoopBegin(g) ==
    /\ app.loops[g] = "sleep"
    /\ g \notin app.stopChan
    /\ app' = [app EXCEPT !.loops[g] = "cycle"]
    /\ UNCHANGED <<appFrame, clock, storeVars>>

\* checkClipboard finds no change and the loop goes to sleep
LoopNoChange(g) ==
    /\ app.loops[g] = "cycle"
    /\ app' = [app EXCEPT !.loops[g] = "sleep"]
    /\ UNCHANGED <<appFrame, clock, storeVars>>

\* checkClipboard finds a new text: handleTextChange calls AddItem on the
\* Monitor's store, instance g, and goes on to its send if the call succeeded
LoopAddItem(g) ==
    /\ app.loops[g] = "cycle"
    /\ clock < MaxClock
    /\ \E c \in Texts, r \in 0 .. RandN - 1 :
         LET item == NewClipboardItem("Text", c, NoPath, clock + 1, r)
             res == IF StoreClosed(g) THEN ClosedResult ELSE AddItem(Store, item)
         IN /\ Returned(res, "AddItem", item.id, item)
            /\ app' = [app EXCEPT !.loops[g] = IF res.err = "ok" THEN "send" ELSE "sleep"]
    /\ clock' = clock + 1
    /\ UNCHANGED appFrame

\* handleTextChange's send on Monitor g's channel, then the sleep
LoopSend(g) ==
    /\ app.loops[g] = "send"
    /\ app' = [app EXCEPT !.loops[g] = "sleep"]
    /\ UNCHANGED <<appFrame, clock, storeVars>>

\* the loop's select finds StopChan closed and the goroutine returns
LoopReturn(g) ==
    /\ app.loops[g] = "sleep"
    /\ g \in app.stopChan
    /\ app' = [app EXCEPT !.loops[g] = "exited"]
    /\ UNCHANGED <<appFrame, clock, storeVars>>

\* A favorite or delete callback of the window, on the window's store
UICall ==
    /\ app.pc = "ui"
    /\ \E id \in CallIds, name \in {"ToggleFavorite", "DeleteItem"} :
         LET res == IF StoreClosed(app.win) THEN ClosedResult
                    ELSE IF name = "DeleteItem" THEN DeleteItem(Store, id)
                    ELSE ToggleFavorite(Store, id)
         IN Returned(res, name, id, NoItem)
    /\ UNCHANGED <<appFrame, clock, app>>

\* Monitor.Stop's first half on the Application's monitor: close(StopChan)
\* if isRunning
StopCalled ==
    IF AppRunning(app.monitor) THEN app.stopChan \cup {app.monitor} ELSE app.stopChan

\* handleSaveSettings up to its call of a.monitor.Stop()
SaveSettings ==
    /\ app.pc = "ui"
    /\ app.store < MaxGen
    /\ app' = [app EXCEPT !.stopChan = StopCalled, !.pc = "settings_stop"]
    /\ UNCHANGED <<appFrame, clock, storeVars>>

\* Stop returns after its sleep of 100 ms, whatever the loop is doing
StopReturn ==
    /\ app.pc \in {"settings_stop", "run_stop"}
    /\ app' = [app EXCEPT !.stopped = @ \cup {app.monitor},
                          !.pc = IF app.pc = "run_stop" THEN "exit" ELSE "settings_close"]
    /\ UNCHANGED <<appFrame, clock, storeVars>>

\* handleSaveSettings: a.storage.Close()
SettingsClose ==
    /\ app.pc = "settings_close"
    /\ app' = [app EXCEPT !.closed = @ \cup {app.store}, !.pc = "settings_new"]
    /\ UNCHANGED <<appFrame, clock, storeVars>>

\* handleSaveSettings: NewStorage (on the same history), NewMonitor on it,
\* setupClipboardListener starts it; the window is not told
SettingsRebuild ==
    /\ app.pc = "settings_new"
    /\ app' = [app EXCEPT !.store = @ + 1, !.monitor = @ + 1,
                          !.loops[app.monitor + 1] = "sleep", !.pc = "ui"]
    /\ UNCHANGED <<appFrame, clock, storeVars>>

\* Run: ShowAndRun returns when the window is closed
WindowClosed ==
    /\ app.pc = "ui"
    /\ app' = [app EXCEPT !.pc = "run_close"]
    /\ UNCHANGED <<appFrame, clock, storeVars>>

\* Run: a.storage.Close()
RunClose ==
    /\ app.pc = "run_close"
    /\ app' = [app EXCEPT !.closed = @ \cup {app.store}, !.pc = "run_stopcall"]
    /\ UNCHANGED <<appFrame, clock, storeVars>>

\* Run: a.monitor.Stop() is called
RunStop ==
    /\ app.pc = "run_stopcall"
    /\ app' = [app EXCEPT !.stopChan = StopCalled, !.pc = "run_stop"]
    /\ UNCHANGED <<appFrame, clock, storeVars>>

NextApp ==
    \/ \E g \in Gens : LoopBegin(g)
    \/ \E g \in Gens : LoopNoChange(g)
    \/ \E g \in Gens : LoopAddItem(g)
    \/ \E g \in Gens : LoopSend(g)
    \/ \E g \in Gens : LoopReturn(g)
    \/ UICall
    \/ SaveSettings
    \/ StopReturn
    \/ SettingsClose
    \/ SettingsRebuild
    \/ WindowClosed
    \/ RunClose
    \/ RunStop

SpecApp == Init /\ [][NextApp]_vars

\* C35: the poll loop of a Monitor never calls AddItem on its store after
\* Close has been called on that store, and calls AddItem and sends on its
\* channel no more once Stop has returned, in the shutdown sequence and in
\* the settings-change sequence.
C35_NoUseAfterClose ==
    [][\A g \in Gens :
         /\ LoopAddItem(g) => g \notin app.closed /\ g \notin app.stopped
         /\ LoopSend(g) => g \notin app.stopped]_vars

\* C38: whenever the window can issue calls, also after settings changes
\* that replaced the store, the store instance the window's LoadItems,
\* Search, ToggleFavorite and DeleteItem go to is the open instance the
\* running Monitor adds to.
C38_OneStore ==
    (app.pc = "ui")
       => /\ app.win = app.monitor
          /\ app.win = app.store
          /\ app.win \notin app.closed

(* ---------------------- restoring a history item ----------------------- *)
\* The window's select callback: SetContent with an item of the store.  An
\* image's file holds the saved image if it is still on disk.
Restore(proc) ==
    /\ \E i \in 1 .. Len(db), readBack \in ReadBacks, keepText \in BOOLEAN :
         LET item == db[i]
             disk == IF item.imagePath \in files THEN FileBytes ELSE "missing"
             r == SetContentResult(item, proc, disk, readBack, keepText)
         IN /\ cbText' = r.text
            /\ cbImage' = r.image
            /\ err' = r.err
            /\ op' = [name |-> "SetContent", id |-> item.id, item |-> item,
                      count |-> Len(db), keyword |-> <<>>, items |-> <<>>,
                      proc |-> proc, disk |-> disk]
    /\ UNCHANGED <<backend, maxItems, app, lifeVars, clock, db, tomb, files, ret,
                   concVars, lastText, lastImageID, lastFileList, changeChan, loop>>

NextRestore ==
    \/ PollImage
    \/ PollFile
    \/ PollText
    \/ PollNothing
    \/ FinishSend
    \/ Receive
    \/ CopyText
    \/ CopyImage
    \/ Restore("processor.go")
    \/ Restore("part_011")

SpecRestore == Init /\ [][NextRestore]_vars

\* the last call was a SetContent of a stored item that succeeded, and the
\* clipboard still holds what it wrote
Restored ==
    /\ op.name = "SetContent" /\ err = "ok"
    /\ op.item \in Range(db)
    /\ IF op.item.type = "Image" THEN cbImage = FileBytes
       ELSE cbText = op.item.content /\ cbImage = "none"

\* C36: restoring a history item does not grow the history: when
\* SetContent(item) has succeeded for a stored item and the Monitor polls the
\* clipboard it wrote, the number of stored items is unchanged and no image
\* file is created.
C36_RestoreKeepsHistory ==
    [][(Restored /\ PollCycle) => Len(db') = Len(db) /\ files' \subseteq files]_vars

(* --------------------------- Start after Stop -------------------------- *)
\* C37: when Start returns without error a poll loop is running and goes on
\* polling until the next Stop call, also when the Start follows a Stop
\* that has taken effect: the loop it starts does not find StopChan closed
\* before a Stop call made after that Start.
C37_StartRuns ==
    [][(Start /\ startErr' = "ok" /\ tasks' = tasks + 1) => stopChan' = "open"]_vars

=============================================================================
